---- MODULE Spec2Model ----
(***************************************************************************)
(* Model of src/column_strategy.rs of arrow-odbc: the selection of a       *)
(* column strategy (choose_column_strategy) and the strategies defined in  *)
(* that file (NonNullableBoolean, NullableBoolean, Decimal).               *)
(*                                                                         *)
(* Two specifications:                                                     *)
(*   Spec      one call of choose_column_strategy on arbitrary inputs;     *)
(*   FillSpec  a strategy of this file, a transit buffer filled by the     *)
(*             driver according to its buffer_description, and             *)
(*             fill_arrow_array applied to it.                             *)
(***************************************************************************)
EXTENDS Integers, Sequences, FiniteSets

VARIABLES
    \* ---- choose_column_strategy: arguments, position and outcome
    field,                      \* &Field: data_type and nullable
    lazy_sql_type,              \* what the native-type accessor returns when invoked
    lazy_display_size,          \* what the display-size accessor returns when invoked
    buffer_allocation_options,  \* BufferAllocationOptions
    pc,                         \* "ready" | "returned" | "panicked" ("idle" in FillSpec)
    out,                        \* the value returned (Ok / Err), or Panic
    sql_type_calls,             \* invocations of lazy_sql_type during the call
    display_size_calls,         \* invocations of lazy_display_size during the call
    \* ---- fill_arrow_array: strategy, transit buffer, finished array
    strategy,
    column_view,
    array,
    fill_pc                     \* "bound" | "fetched" | "filled" ("idle" in Spec)

vars == <<field, lazy_sql_type, lazy_display_size, buffer_allocation_options,
          pc, out, sql_type_calls, display_size_calls,
          strategy, column_view, array, fill_pc>>

select_vars == <<field, lazy_sql_type, lazy_display_size, buffer_allocation_options,
                 pc, out, sql_type_calls, display_size_calls>>

fill_vars == <<strategy, column_view, array, fill_pc>>

(***************************************************************************)
(* Bounds of the model.                                                    *)
(***************************************************************************)
\* Largest column size, display size and size ceiling enumerated.
MaxLen == 2
\* Largest Decimal precision enumerated (scale ranges over 0..precision).
MaxPrecision == 2
\* Largest FixedSizeBinary length enumerated (the smallest is -1: the length is an i32).
MaxFixedLen == 1
\* Lengths above this many bytes stand for "too large to be allocated".
MaxAlloc == 1

(***************************************************************************)
(* Option and Result values.                                               *)
(***************************************************************************)
None == [some |-> FALSE]
Some(x) == [some |-> TRUE, val |-> x]

Ok(x) == [kind |-> "Ok", val |-> x]
Err(e) == [kind |-> "Err", err |-> e]
Panic == [kind |-> "Panic"]
Pending == [kind |-> "Pending"]

(***************************************************************************)
(* ArrowDataType: the variants the match of choose_column_strategy names.  *)
(***************************************************************************)
TimeUnits == {"Second", "Millisecond", "Microsecond", "Nanosecond"}

NoConversionTags == {"Int8", "Int16", "Int32", "Int64", "UInt8", "Float32", "Float64"}

UnsupportedTags ==
    {"Null", "Date64", "Time32", "Time64", "Duration", "Interval", "LargeBinary",
     "LargeUtf8", "List", "FixedSizeList", "LargeList", "Struct", "Union",
     "Dictionary", "UInt16", "UInt32", "UInt64", "Map", "Float16"}

ArrowDataTypes ==
    {[tag |-> t] : t \in {"Boolean", "Date32", "Utf8", "Binary"}
                         \cup NoConversionTags \cup UnsupportedTags}
    \cup {[tag |-> "Timestamp", unit |-> u] : u \in TimeUnits}
    \cup {[tag |-> "Decimal", precision |-> p, scale |-> s] :
            p \in 1..MaxPrecision, s \in 0..MaxPrecision}
    \cup {[tag |-> "FixedSizeBinary", length |-> l] : l \in -1..MaxFixedLen}

Fields == [data_type : ArrowDataTypes, nullable : BOOLEAN]

(***************************************************************************)
(* OdbcDataType: an opaque tag and the column size the driver reports.     *)
(***************************************************************************)
OdbcDataTypes == [tag : {"Varchar", "Varbinary", "Other"}, size : 0..MaxLen]

column_size(sql_type) == sql_type.size

OdbcErrors == {"HY000", "08S01"}

SqlTypeOutcomes == {Ok(t) : t \in OdbcDataTypes} \cup {Err(e) : e \in OdbcErrors}

DisplaySizeOutcomes == {Ok(n) : n \in 0..MaxLen} \cup {Err(e) : e \in OdbcErrors}

OptionalSizes == {None} \cup {Some(n) : n \in 0..MaxLen}

BufferAllocationOptions ==
    [max_text_size : OptionalSizes,
     max_binary_size : OptionalSizes,
     fallibale_allocations : BOOLEAN]

(***************************************************************************)
(* ColumnFailure                                                           *)
(***************************************************************************)
ZeroSizedColumn(sql_type) == [kind |-> "ZeroSizedColumn", sql_type |-> sql_type]

UnknownStringLength(sql_type, source) ==
    [kind |-> "UnknownStringLength", sql_type |-> sql_type, source |-> source]

UnsupportedArrowType(arrow_type) ==
    [kind |-> "UnsupportedArrowType", arrow_type |-> arrow_type]

FailedToDescribeColumn(source) == [kind |-> "FailedToDescribeColumn", source |-> source]

TooLarge(num_elements, element_size) ==
    [kind |-> "TooLarge", num_elements |-> num_elements, element_size |-> element_size]

(***************************************************************************)
(* The strategies choose_column_strategy can return.                       *)
(***************************************************************************)
NonNullableBoolean == [name |-> "NonNullableBoolean"]

NullableBoolean == [name |-> "NullableBoolean"]

Decimal_new(nullable, precision, scale) ==
    [name |-> "Decimal", nullable |-> nullable, precision |-> precision, scale |-> scale]

no_conversion(item, nullable) ==
    [name |-> "NoConversion", item |-> item, nullable |-> nullable]

with_conversion(nullable, conversion) ==
    [name |-> "WithConversion", conversion |-> conversion, nullable |-> nullable]

Binary_new(nullable, length) ==
    [name |-> "Binary", nullable |-> nullable, length |-> length]

FixedSizedBinary_new(nullable, length) ==
    [name |-> "FixedSizedBinary", nullable |-> nullable, length |-> length]

narrow_text_strategy(octet_len, nullable) ==
    [name |-> "Text", nullable |-> nullable, length |-> octet_len]

(***************************************************************************)
(* What one call of choose_column_strategy yields: the value returned and  *)
(* how often each accessor was invoked.                                    *)
(***************************************************************************)
Outcome(ret, n_sql_type, n_display_size) ==
    [ret |-> ret, sql_type_calls |-> n_sql_type, display_size_calls |-> n_display_size]

\* i32 -> usize, as `(*length).try_into()`
try_into_usize(n) == IF n < 0 THEN Err("TryFromIntError") ELSE Ok(n)

\* Variant of binary_length that reports a zero column size even when a
\* ceiling is configured.
binary_length_zero_always_fails(len, limit, sql_type) ==
    CASE len = 0              -> Err(ZeroSizedColumn(sql_type))
      [] len # 0 /\ ~limit.some -> Ok(len)
      [] OTHER                  -> Ok(IF len < limit.val THEN len ELSE limit.val)

\* The match on (length, max_binary_size) of the Binary arm.
binary_length(len, limit, sql_type) ==
    CASE len = 0 /\ ~limit.some -> Err(ZeroSizedColumn(sql_type))
      [] len = 0 /\ limit.some  -> Ok(limit.val)
      [] len # 0 /\ ~limit.some -> Ok(len)
      [] OTHER                  -> Ok(IF len < limit.val THEN len ELSE limit.val)

BooleanArm(f) ==
    Outcome(Ok(IF f.nullable THEN NullableBoolean ELSE NonNullableBoolean), 0, 0)

NoConversionArm(f) == Outcome(Ok(no_conversion(f.data_type.tag, f.nullable)), 0, 0)

Date32Arm(f) == Outcome(Ok(with_conversion(f.nullable, "DateConversion")), 0, 0)

TimestampConversion(unit) ==
    CASE unit = "Second"      -> "TimestampSecConversion"
      [] unit = "Millisecond" -> "TimestampMsConversion"
      [] unit = "Microsecond" -> "TimestampUsConversion"
      [] unit = "Nanosecond"  -> "TimestampNsConversion"

TimestampArm(f) ==
    Outcome(Ok(with_conversion(f.nullable, TimestampConversion(f.data_type.unit))), 0, 0)

DecimalArm(f) ==
    Outcome(Ok(Decimal_new(f.nullable, f.data_type.precision, f.data_type.scale)), 0, 0)

\* `(*length).try_into().unwrap()` panics when the conversion fails.
FixedSizeBinaryArm(f) ==
    LET length == try_into_usize(f.data_type.length)
    IN  IF length.kind = "Err"
        THEN Outcome(Panic, 0, 0)
        ELSE Outcome(Ok(FixedSizedBinary_new(f.nullable, length.val)), 0, 0)

\* Variant of UnsupportedArm that passes the unsigned integers on as if they
\* needed no conversion.
UnsupportedArm_unsigned_passthrough(f) ==
    IF f.data_type.tag \in {"UInt16", "UInt32", "UInt64"}
    THEN Outcome(Ok(no_conversion(f.data_type.tag, f.nullable)), 0, 0)
    ELSE Outcome(Err(UnsupportedArrowType(f.data_type)), 0, 0)

UnsupportedArm(f) == Outcome(Err(UnsupportedArrowType(f.data_type)), 0, 0)

\* Variant of BinaryArm that invokes the native-type accessor a second time to
\* read the column size.
BinaryArm_describes_twice(f, sql, opts) ==
    IF sql.kind = "Err"
    THEN Outcome(Err(FailedToDescribeColumn(sql.err)), 1, 0)
    ELSE LET sql_type == sql.val
             length == binary_length(column_size(sql_type), opts.max_binary_size,
                                     sql_type)
         IN  IF length.kind = "Err"
             THEN Outcome(length, 2, 0)
             ELSE Outcome(Ok(Binary_new(f.nullable, length.val)), 2, 0)

\* Variant of BinaryArm that refuses lengths above MaxAlloc with TooLarge when
\* fallibale_allocations is set.
BinaryArm_checks_allocation(f, sql, opts) ==
    IF sql.kind = "Err"
    THEN Outcome(Err(FailedToDescribeColumn(sql.err)), 1, 0)
    ELSE LET sql_type == sql.val
             length == binary_length(column_size(sql_type), opts.max_binary_size,
                                     sql_type)
         IN  IF length.kind = "Err"
             THEN Outcome(length, 1, 0)
             ELSE IF opts.fallibale_allocations /\ length.val > MaxAlloc
             THEN Outcome(Err(TooLarge(1, length.val)), 1, 0)
             ELSE Outcome(Ok(Binary_new(f.nullable, length.val)), 1, 0)

BinaryArm(f, sql, opts) ==
    IF sql.kind = "Err"
    THEN Outcome(Err(FailedToDescribeColumn(sql.err)), 1, 0)
    ELSE LET sql_type == sql.val
             length == binary_length(column_size(sql_type), opts.max_binary_size,
                                     sql_type)
         IN  IF length.kind = "Err"
             THEN Outcome(length, 1, 0)
             ELSE Outcome(Ok(Binary_new(f.nullable, length.val)), 1, 0)

\* choose_text_strategy is defined in the text module. Its sizing rule: the
\* length the native type itself states when it has one, the display size
\* otherwise (UnknownStringLength when that accessor fails), then the same
\* resolution against max_text_size as for binary columns.
apply_buffer_limit(len, max_text_size, sql_type) ==
    CASE len = 0 /\ ~max_text_size.some -> Err(ZeroSizedColumn(sql_type))
      [] len = 0 /\ max_text_size.some  -> Ok(max_text_size.val)
      [] len # 0 /\ ~max_text_size.some -> Ok(len)
      [] OTHER -> Ok(IF len < max_text_size.val THEN len ELSE max_text_size.val)

choose_text_strategy(sql_type, display_size, nullable, max_text_size) ==
    LET known == sql_type.tag = "Varchar"
        calls == IF known THEN 0 ELSE 1
    IN  IF ~known /\ display_size.kind = "Err"
        THEN [ret |-> Err(UnknownStringLength(sql_type, display_size.err)),
              display_size_calls |-> calls]
        ELSE LET octet_len == IF known THEN column_size(sql_type) ELSE display_size.val
                 limited == apply_buffer_limit(octet_len, max_text_size, sql_type)
             IN  [ret |-> IF limited.kind = "Err"
                          THEN limited
                          ELSE Ok(narrow_text_strategy(limited.val, nullable)),
                  display_size_calls |-> calls]

\* Variant of Utf8Arm that, when the native type cannot be described, goes on
\* to size the buffer from the display size alone.
Utf8Arm_falls_back_to_display_size(f, sql, display_size, opts) ==
    LET sql_type == IF sql.kind = "Err" THEN [tag |-> "Other", size |-> 0] ELSE sql.val
        text == choose_text_strategy(sql_type, display_size, f.nullable,
                                     opts.max_text_size)
    IN  Outcome(text.ret, 1, text.display_size_calls)

Utf8Arm(f, sql, display_size, opts) ==
    IF sql.kind = "Err"
    THEN Outcome(Err(FailedToDescribeColumn(sql.err)), 1, 0)
    ELSE LET text == choose_text_strategy(sql.val, display_size, f.nullable,
                                          opts.max_text_size)
         IN  Outcome(text.ret, 1, text.display_size_calls)

choose_column_strategy(f, sql, display_size, opts) ==
    LET tag == f.data_type.tag
    IN  CASE tag = "Boolean"          -> BooleanArm(f)
          [] tag \in NoConversionTags -> NoConversionArm(f)
          [] tag = "Date32"           -> Date32Arm(f)
          [] tag = "Utf8"             -> Utf8Arm(f, sql, display_size, opts)
          [] tag = "Decimal"          -> DecimalArm(f)
          [] tag = "Binary"           -> BinaryArm(f, sql, opts)
          [] tag = "Timestamp"        -> TimestampArm(f)
          [] tag = "FixedSizeBinary"  -> FixedSizeBinaryArm(f)
          [] tag \in UnsupportedTags  -> UnsupportedArm(f)

(***************************************************************************)
(* Spec: one call of choose_column_strategy.                               *)
(***************************************************************************)
FillIdle ==
    /\ strategy = NonNullableBoolean
    /\ column_view = <<>>
    /\ array = <<>>
    /\ fill_pc = "idle"

Init ==
    /\ field \in Fields
    /\ lazy_sql_type \in SqlTypeOutcomes
    /\ lazy_display_size \in DisplaySizeOutcomes
    /\ buffer_allocation_options \in BufferAllocationOptions
    /\ pc = "ready"
    /\ out = Pending
    /\ sql_type_calls = 0
    /\ display_size_calls = 0
    /\ FillIdle

\* The call runs to its end: it returns a value or panics.
Return(o) ==
    /\ out' = o.ret
    /\ sql_type_calls' = o.sql_type_calls
    /\ display_size_calls' = o.display_size_calls
    /\ pc' = IF o.ret.kind = "Panic" THEN "panicked" ELSE "returned"
    /\ UNCHANGED <<field, lazy_sql_type, lazy_display_size, buffer_allocation_options>>
    /\ UNCHANGED fill_vars

Call == choose_column_strategy(field, lazy_sql_type, lazy_display_size,
                               buffer_allocation_options)

\* One action per group of match arms of choose_column_strategy.
ChooseStatic ==
    /\ pc = "ready"
    /\ field.data_type.tag \in {"Boolean", "Date32", "Timestamp"} \cup NoConversionTags
    /\ Return(Call)

ChooseUtf8 ==
    /\ pc = "ready"
    /\ field.data_type.tag = "Utf8"
    /\ Return(Call)

ChooseDecimal ==
    /\ pc = "ready"
    /\ field.data_type.tag = "Decimal"
    /\ Return(Call)

ChooseBinary ==
    /\ pc = "ready"
    /\ field.data_type.tag = "Binary"
    /\ Return(Call)

ChooseFixedSizeBinary ==
    /\ pc = "ready"
    /\ field.data_type.tag = "FixedSizeBinary"
    /\ Return(Call)

ChooseUnsupported ==
    /\ pc = "ready"
    /\ field.data_type.tag \in UnsupportedTags
    /\ Return(Call)

Next ==
    \/ ChooseStatic
    \/ ChooseUtf8
    \/ ChooseDecimal
    \/ ChooseBinary
    \/ ChooseFixedSizeBinary
    \/ ChooseUnsupported

Spec == Init /\ [][Next]_vars

(***************************************************************************)
(* buffer_description of the strategies defined in this file.              *)
(***************************************************************************)
BufferDescription(nullable, kind) == [nullable |-> nullable, kind |-> kind]

BufferKind_Bit == [kind |-> "Bit"]

BufferKind_Text(max_str_len) == [kind |-> "Text", max_str_len |-> max_str_len]

NonNullableBoolean_buffer_description == BufferDescription(FALSE, BufferKind_Bit)

NullableBoolean_buffer_description == BufferDescription(TRUE, BufferKind_Bit)

\* Variant of Decimal_buffer_description that leaves no room for the sign.
Decimal_buffer_description_no_sign(self) ==
    BufferDescription(self.nullable, BufferKind_Text(self.precision + 1))

\* Must be able to hold num precision digits a sign and a decimal point
Decimal_buffer_description(self) ==
    BufferDescription(self.nullable, BufferKind_Text(self.precision + 2))

buffer_description(self) ==
    CASE self.name = "NonNullableBoolean" -> NonNullableBoolean_buffer_description
      [] self.name = "NullableBoolean"    -> NullableBoolean_buffer_description
      [] self.name = "Decimal"            -> Decimal_buffer_description(self)

(***************************************************************************)
(* Transit buffers, as the driver fills them for a buffer description.     *)
(* A text is a sequence of bytes.                                          *)
(***************************************************************************)
\* Most rows of one batch.
MaxRows == 2
\* Longest text enumerated over TextAlphabet.
MaxTextLen == 2

Minus == 45
Plus == 43
Point == 46
Zero == 48

\* '-', '.', '7'
TextAlphabet == {Minus, Point, 55}

\* "123.45", "-0.5", "+7", "+.7", "-", "7x", "x7", "1.2.3", "7-7", "+-7", "-7.x1"
SampleTexts ==
    { <<49, 50, 51, 46, 52, 53>>, <<45, 48, 46, 53>>, <<43, 55>>, <<43, 46, 55>>,
      <<45>>, <<55, 120>>, <<120, 55>>, <<49, 46, 50, 46, 51>>, <<55, 45, 55>>,
      <<43, 45, 55>>, <<45, 55, 46, 120, 49>> }

SeqsUpTo(S, n) == UNION {[1..k -> S] : k \in 0..n}

Texts == SeqsUpTo(TextAlphabet, MaxTextLen) \cup SampleTexts

Bits == {0, 1}

ColumnViews(desc) ==
    CASE desc.kind.kind = "Bit" /\ ~desc.nullable -> SeqsUpTo(Bits, MaxRows)
      [] desc.kind.kind = "Bit" /\ desc.nullable ->
            SeqsUpTo({None} \cup {Some(b) : b \in Bits}, MaxRows)
      [] desc.kind.kind = "Text" ->
            SeqsUpTo((IF desc.nullable THEN {None} ELSE {})
                     \cup {Some(t) : t \in {x \in Texts : Len(x) <= desc.kind.max_str_len}},
                     MaxRows)

(***************************************************************************)
(* Array builders: a finished array is a sequence of slots, None for null. *)
(***************************************************************************)
append_value(builder, v) == Append(builder, Some(v))

append_null(builder) == Append(builder, None)

append_option(builder, opt) == Append(builder, opt)

\* Bit::as_bool
as_bool(bit) == bit = 1

(***************************************************************************)
(* NonNullableBoolean::fill_arrow_array, NullableBoolean::fill_arrow_array *)
(***************************************************************************)
RECURSIVE NonNullableBooleanLoop(_, _)
NonNullableBooleanLoop(values, builder) ==
    IF values = <<>>
    THEN builder
    ELSE NonNullableBooleanLoop(Tail(values), append_value(builder, as_bool(Head(values))))

NonNullableBoolean_fill_arrow_array(view) == NonNullableBooleanLoop(view, <<>>)

\* bit.copied().map(Bit::as_bool)
MapAsBool(opt) == IF opt.some THEN Some(as_bool(opt.val)) ELSE None

RECURSIVE NullableBooleanLoop(_, _)
NullableBooleanLoop(values, builder) ==
    IF values = <<>>
    THEN builder
    ELSE NullableBooleanLoop(Tail(values), append_option(builder, MapAsBool(Head(values))))

\* Variant of NullableBoolean::fill_arrow_array that skips the unset positions.
NullableBoolean_fill_skipping_nulls(view) ==
    NullableBooleanLoop(SelectSeq(view, LAMBDA bit : bit.some), <<>>)

NullableBoolean_fill_arrow_array(view) == NullableBooleanLoop(view, <<>>)

(***************************************************************************)
(* Decimal::fill_arrow_array                                               *)
(***************************************************************************)
IsDigit(c) == c >= Zero /\ c <= Zero + 9

\* atoi: the digits are accumulated from the left until the first byte that is
\* no digit; `signum` is 1 after '+' or no sign and -1 after '-'.
RECURSIVE ScanDigits(_, _, _, _)
ScanDigits(text, index, number, signum) ==
    IF index > Len(text) \/ ~IsDigit(text[index])
    THEN [num |-> number, consumed |-> index - 1]
    ELSE ScanDigits(text, index + 1, number * 10 + signum * (text[index] - Zero), signum)

from_radix_10_signed(text) ==
    IF text # <<>> /\ text[1] = Minus THEN ScanDigits(text, 2, 0, -1)
    ELSE IF text # <<>> /\ text[1] = Plus THEN ScanDigits(text, 2, 0, 1)
    ELSE ScanDigits(text, 1, 0, 1)

\* Variant of strip_points that keeps the decimal point.
strip_points_keeping_point(text) == text

\* buf_digits.extend(text.iter().filter(|&&c| c != b'.'))
strip_points(text) == SelectSeq(text, LAMBDA c : c # Point)

\* Variant of DecimalRow that appends null for a text the scan did not consume
\* to its end.
DecimalRow_null_on_rest(builder, opt) ==
    IF opt.some
    THEN LET buf_digits == strip_points(opt.val)
             parsed == from_radix_10_signed(buf_digits)
         IN  IF parsed.consumed = Len(buf_digits)
             THEN append_value(builder, parsed.num)
             ELSE append_null(builder)
    ELSE append_null(builder)

DecimalRow(builder, opt) ==
    IF opt.some
    THEN append_value(builder, from_radix_10_signed(strip_points(opt.val)).num)
    ELSE append_null(builder)

RECURSIVE DecimalLoop(_, _)
DecimalLoop(rows, builder) ==
    IF rows = <<>>
    THEN builder
    ELSE DecimalLoop(Tail(rows), DecimalRow(builder, Head(rows)))

Decimal_fill_arrow_array(self, view) == DecimalLoop(view, <<>>)

(***************************************************************************)
(* FillSpec: a strategy is bound, the driver fills the transit buffer it   *)
(* describes, fill_arrow_array builds the array.                           *)
(***************************************************************************)
\* Precisions that admit every text of Texts: none has more than five digits.
DecimalStrategies ==
    {Decimal_new(TRUE, 5, 2), Decimal_new(TRUE, 6, 1), Decimal_new(FALSE, 5, 2)}

FillStrategies == {NonNullableBoolean, NullableBoolean} \cup DecimalStrategies

SelectIdle ==
    /\ field = [data_type |-> [tag |-> "Boolean"], nullable |-> FALSE]
    /\ lazy_sql_type = Err("HY000")
    /\ lazy_display_size = Err("HY000")
    /\ buffer_allocation_options =
         [max_text_size |-> None, max_binary_size |-> None, fallibale_allocations |-> FALSE]
    /\ pc = "idle"
    /\ out = Pending
    /\ sql_type_calls = 0
    /\ display_size_calls = 0

FillInit ==
    /\ SelectIdle
    /\ strategy \in FillStrategies
    /\ column_view = <<>>
    /\ array = <<>>
    /\ fill_pc = "bound"

\* The driver fills the buffer bound for buffer_description().
Fetch ==
    /\ fill_pc = "bound"
    /\ column_view' \in ColumnViews(buffer_description(strategy))
    /\ fill_pc' = "fetched"
    /\ UNCHANGED <<strategy, array>>
    /\ UNCHANGED select_vars

Filled(a) ==
    /\ fill_pc = "fetched"
    /\ array' = a
    /\ fill_pc' = "filled"
    /\ UNCHANGED <<strategy, column_view>>
    /\ UNCHANGED select_vars

FillNonNullableBoolean ==
    /\ strategy.name = "NonNullableBoolean"
    /\ Filled(NonNullableBoolean_fill_arrow_array(column_view))

FillNullableBoolean ==
    /\ strategy.name = "NullableBoolean"
    /\ Filled(NullableBoolean_fill_arrow_array(column_view))

FillDecimal ==
    /\ strategy.name = "Decimal"
    /\ Filled(Decimal_fill_arrow_array(strategy, column_view))

FillNext ==
    \/ Fetch
    \/ FillNonNullableBoolean
    \/ FillNullableBoolean
    \/ FillDecimal

FillSpec == FillInit /\ [][FillNext]_vars

(***************************************************************************)
(* Properties of choose_column_strategy, checked under Spec.               *)
(***************************************************************************)
Called == pc \in {"returned", "panicked"}

Tag == field.data_type.tag

Smaller(a, b) == CHOOSE m \in {a, b} : m <= a /\ m <= b

ReturnsBinaryOfLength(n) ==
    /\ pc = "returned"
    /\ out.kind = "Ok"
    /\ out.val.name = "Binary"
    /\ out.val.length = n

\* C1: for a Binary field whose native type was described, the transit buffer
\* length follows the table on (reported_len, max_binary_size):
\* (0, None) fails with ZeroSizedColumn carrying the native type, (0, Some(c))
\* gives c, (len, None) gives len, (len, Some(c)) gives min(len, c); the nullable
\* flag plays no part in it.
C1_BinaryLengthTable ==
    (Called /\ Tag = "Binary" /\ lazy_sql_type.kind = "Ok") =>
        LET reported_len == lazy_sql_type.val.size
            ceiling == buffer_allocation_options.max_binary_size
        IN  /\ (reported_len = 0 /\ ~ceiling.some) =>
                    /\ pc = "returned"
                    /\ out = Err(ZeroSizedColumn(lazy_sql_type.val))
            /\ (reported_len = 0 /\ ceiling.some) => ReturnsBinaryOfLength(ceiling.val)
            /\ (reported_len > 0 /\ ~ceiling.some) => ReturnsBinaryOfLength(reported_len)
            /\ (reported_len > 0 /\ ceiling.some) =>
                    ReturnsBinaryOfLength(Smaller(reported_len, ceiling.val))

\* A zero column size resolved to the configured ceiling.
C1_Witness ==
    /\ pc = "returned"
    /\ Tag = "Binary"
    /\ lazy_sql_type.kind = "Ok"
    /\ lazy_sql_type.val.size = 0
    /\ buffer_allocation_options.max_binary_size = Some(2)
    /\ out.kind = "Ok"
    /\ out.val.length = 2

ClaimedSupportedTags ==
    {"Boolean", "Int8", "Int16", "Int32", "Int64", "UInt8", "Float32", "Float64",
     "Date32", "Timestamp", "Utf8", "Decimal", "Binary", "FixedSizeBinary"}

\* C2: a field of any type outside the supported set makes the call return
\* UnsupportedArrowType carrying exactly that type; it returns no strategy and
\* does not panic.
C2_UnsupportedTypeFails ==
    (Called /\ Tag \notin ClaimedSupportedTags) =>
        /\ pc = "returned"
        /\ out = Err(UnsupportedArrowType(field.data_type))

C2_Witness ==
    /\ pc = "returned"
    /\ Tag = "UInt32"
    /\ field.nullable
    /\ out.kind = "Err"
    /\ out.err.kind = "UnsupportedArrowType"
    /\ out.err.arrow_type = [tag |-> "UInt32"]

\* C3: every call ends by returning a strategy or a ColumnFailure; none panics.
C3_NeverPanics ==
    Called => (pc = "returned" /\ out.kind \in {"Ok", "Err"})

StaticallySizedTags ==
    {"Boolean", "Int8", "Int16", "Int32", "Int64", "UInt8", "Float32", "Float64",
     "Date32", "Timestamp", "Decimal", "FixedSizeBinary"}

\* C4: during one call each accessor is invoked at most once; neither is invoked
\* for a type of statically known size nor for an unsupported type; the
\* native-type accessor is invoked only for Utf8 and Binary.
C4_AccessorsInvokedSparingly ==
    /\ sql_type_calls <= 1
    /\ display_size_calls <= 1
    /\ (Tag \in StaticallySizedTags \/ Tag \notin ClaimedSupportedTags) =>
            (sql_type_calls = 0 /\ display_size_calls = 0)
    /\ sql_type_calls > 0 => Tag \in {"Utf8", "Binary"}

C4_Witness ==
    /\ pc = "returned"
    /\ Tag = "Binary"
    /\ out.kind = "Ok"
    /\ sql_type_calls = 1
    /\ display_size_calls = 0

\* C5: for a Utf8 or Binary field whose native-type accessor fails, the call
\* returns FailedToDescribeColumn carrying that very error, after one
\* invocation of that accessor and none of the display-size accessor.
C5_DescribeFailurePropagates ==
    (Called /\ Tag \in {"Utf8", "Binary"} /\ lazy_sql_type.kind = "Err") =>
        /\ pc = "returned"
        /\ out = Err(FailedToDescribeColumn(lazy_sql_type.err))
        /\ sql_type_calls = 1
        /\ display_size_calls = 0

C5_Witness ==
    /\ pc = "returned"
    /\ Tag = "Utf8"
    /\ lazy_sql_type = Err("08S01")
    /\ lazy_display_size.kind = "Ok"
    /\ out.kind = "Err"
    /\ out.err = FailedToDescribeColumn("08S01")

\* C7, as stated, for the Binary target, whose length this file resolves: with
\* fallibale_allocations set, no Binary strategy is returned whose buffer
\* length is too large to be allocated.
C7_FallibleNeverOversized ==
    ( /\ pc = "returned"
      /\ Tag = "Binary"
      /\ buffer_allocation_options.fallibale_allocations
      /\ out.kind = "Ok" ) =>
        out.val.length <= MaxAlloc

OtherFlag(opts) ==
    [opts EXCEPT !.fallibale_allocations = ~opts.fallibale_allocations]

\* C7, amended: the outcome of choose_column_strategy is the same for both
\* values of fallibale_allocations, and outside the text sub-policy it never
\* is TooLarge: a Binary length is handed on in the strategy whatever its size.
C7_SelectionIgnoresFallible ==
    Called =>
        /\ Outcome(out, sql_type_calls, display_size_calls) =
             choose_column_strategy(field, lazy_sql_type, lazy_display_size,
                                    OtherFlag(buffer_allocation_options))
        /\ (Tag # "Utf8" /\ out.kind = "Err") => out.err.kind # "TooLarge"
        /\ (Tag = "Binary" /\ out.kind = "Ok") =>
              \/ out.val.length = lazy_sql_type.val.size
              \/ out.val.length = buffer_allocation_options.max_binary_size.val

C7_Witness ==
    /\ pc = "returned"
    /\ Tag = "Binary"
    /\ buffer_allocation_options.fallibale_allocations
    /\ out.kind = "Ok"
    /\ out.val.length > MaxAlloc

\* C9: a Decimal(precision, scale) field always yields a Decimal strategy of
\* that precision and scale whose buffer is a text buffer of precision + 2
\* bytes with the field's nullability, whatever the accessors and the options
\* hold; that width holds up to `precision` digits, a sign and a point.
C9_DecimalBuffer ==
    (Called /\ Tag = "Decimal") =>
        /\ pc = "returned"
        /\ out.kind = "Ok"
        /\ out.val.name = "Decimal"
        /\ out.val.precision = field.data_type.precision
        /\ out.val.scale = field.data_type.scale
        /\ buffer_description(out.val) =
             [nullable |-> field.nullable,
              kind |-> [kind |-> "Text", max_str_len |-> field.data_type.precision + 2]]
        /\ \A digits \in 0..field.data_type.precision, sign \in 0..1, point \in 0..1 :
             digits + sign + point <= buffer_description(out.val).kind.max_str_len

\* A Decimal strategy returned although the native type could not be described
\* and a smaller text ceiling is configured.
C9_Witness ==
    /\ pc = "returned"
    /\ Tag = "Decimal"
    /\ field.data_type.precision = 2
    /\ lazy_sql_type.kind = "Err"
    /\ lazy_display_size.kind = "Err"
    /\ buffer_allocation_options.max_text_size = Some(1)
    /\ out.kind = "Ok"
    /\ buffer_description(out.val).kind.max_str_len = 4

(***************************************************************************)
(* Properties of fill_arrow_array, checked under FillSpec.                 *)
(***************************************************************************)
Rows == 1..Len(column_view)

FilledBy(name) == fill_pc = "filled" /\ strategy.name = name

\* C8: boolean filling keeps length, order and values. Non-nullable: slot i is
\* the non-null truth value of bit i. Nullable: slot i is null iff position i is
\* unset and is the truth value of bit i otherwise.
C8_BooleanFillPreserves ==
    /\ FilledBy("NonNullableBoolean") =>
         /\ Len(array) = Len(column_view)
         /\ \A i \in Rows :
              /\ array[i].some
              /\ array[i].val <=> (column_view[i] = 1)
    /\ FilledBy("NullableBoolean") =>
         /\ Len(array) = Len(column_view)
         /\ \A i \in Rows :
              /\ array[i].some <=> column_view[i].some
              /\ column_view[i].some => (array[i].val <=> (column_view[i].val = 1))

\* An unset position between nothing and a set bit: null first, TRUE second.
C8_Witness ==
    /\ FilledBy("NullableBoolean")
    /\ column_view = <<None, Some(1)>>
    /\ array = <<None, Some(TRUE)>>

Signs == {Minus, Plus}

\* An optional sign first, then digits only.
IsSignedDigits(t) ==
    \A k \in 1..Len(t) : IsDigit(t[k]) \/ (k = 1 /\ t[k] \in Signs)

\* An optional leading sign, digits and decimal points.
IsDecimalText(t) ==
    \A k \in 1..Len(t) : IsDigit(t[k]) \/ t[k] = Point \/ (k = 1 /\ t[k] \in Signs)

RECURSIVE Pow10(_)
Pow10(n) == IF n = 0 THEN 1 ELSE 10 * Pow10(n - 1)

RECURSIVE PlaceValueSum(_, _)
PlaceValueSum(digits, k) ==
    IF k > Len(digits) THEN 0
    ELSE (digits[k] - Zero) * Pow10(Len(digits) - k) + PlaceValueSum(digits, k + 1)

\* The integer a signed digit sequence denotes in radix 10: its digits weighted
\* by their place, negated after a leading '-'.
SignedValue(t) ==
    LET magnitude == PlaceValueSum(SelectSeq(t, IsDigit), 1)
    IN  IF t # <<>> /\ t[1] = Minus THEN 0 - magnitude ELSE magnitude

\* C6: the decimal array has one slot per row of the text view, in order: null
\* for a null row; for a row of an optional leading sign, digits and points the
\* integer its digits denote with every point removed ("123.45" gives 12345,
\* "-0.5" gives -5), wherever the points stand and whatever precision and scale
\* the strategy carries.
C6_DecimalFill ==
    FilledBy("Decimal") =>
        /\ Len(array) = Len(column_view)
        /\ \A i \in Rows :
             /\ ~column_view[i].some => array[i] = None
             /\ (column_view[i].some /\ IsDecimalText(column_view[i].val)) =>
                    array[i] = Some(SignedValue(column_view[i].val))
             /\ column_view[i] = Some(<<49, 50, 51, 46, 52, 53>>) => array[i] = Some(12345)
             /\ column_view[i] = Some(<<45, 48, 46, 53>>) => array[i] = Some(-5)

\* "123.45" then a null row.
C6_Witness ==
    /\ FilledBy("Decimal")
    /\ column_view = <<Some(<<49, 50, 51, 46, 52, 53>>), None>>
    /\ array = <<Some(12345), None>>

RECURSIVE WithoutPoints(_)
WithoutPoints(t) ==
    IF t = <<>> THEN <<>>
    ELSE IF Head(t) = Point THEN WithoutPoints(Tail(t))
    ELSE <<Head(t)>> \o WithoutPoints(Tail(t))

\* The longest prefix of t that is an optional sign followed by digits.
LongestSignedPrefix(t) ==
    LET lens == {k \in 0..Len(t) : IsSignedDigits(SubSeq(t, 1, k))}
        longest == CHOOSE k \in lens : \A j \in lens : j <= k
    IN  SubSeq(t, 1, longest)

Malformed(t) == ~IsSignedDigits(WithoutPoints(t))

\* C10: malformed text is no failure. Every non-null row, and so every row whose
\* bytes without the points are not a signed digit sequence, gives a non-null
\* slot holding the integer of the longest leading signed-digit prefix (0 when
\* that prefix has no digit); the other rows of the batch are converted as
\* usual and keep their places.
C10_MalformedTextParsesPrefix ==
    FilledBy("Decimal") =>
        /\ Len(array) = Len(column_view)
        /\ \A i \in Rows :
             IF column_view[i].some
             THEN array[i] = Some(SignedValue(LongestSignedPrefix(
                                    WithoutPoints(column_view[i].val))))
             ELSE array[i] = None

\* "7x" parsed as 7, followed by "-7".
C10_Witness ==
    /\ FilledBy("Decimal")
    /\ column_view = <<Some(<<55, 120>>), Some(<<Minus, 55>>)>>
    /\ Malformed(column_view[1].val)
    /\ array = <<Some(7), Some(-7)>>

====
